---- MODULE Spec2Model ----
(***************************************************************************)
(* LoggingMiddleware of gotham's logger middleware                         *)
(* (src/middleware/logger/src/lib.rs).                                     *)
(*                                                                         *)
(* One middleware instance (self) serves the requests of Requests.  For    *)
(* each request the model follows Middleware::call, the future of the rest *)
(* of the pipeline (chain), and the poll of the future that call returned, *)
(* which runs the and_then closure that formats and logs the access line.  *)
(* Text is TLA+ strings built by concatenation, numbers are rendered digit *)
(* by digit, and the f32 arithmetic of the duration is computed on         *)
(* integers with IEEE round-to-nearest-even.                               *)
(***************************************************************************)
EXTENDS Integers, Sequences, FiniteSets, TLC

VARIABLES
    self,          \* the LoggingMiddleware: [level, duration]
    max_level,     \* the log crate's process-wide maximum level filter
    now,           \* the wall clock, in microseconds since ClockOrigin
    ticks,         \* clock advances taken so far
    reconfigs,     \* changes of max_level taken so far
    pc,            \* per request: position of the future returned by call
    hooked,        \* per request: call returned chain(state).and_then(..)
    start_time,    \* per request: the closure's captured start_time
    chainCalls,    \* per request: how often the chain was invoked
    chain,         \* per request: the future of the rest of the pipeline
    result,        \* per request: what the returned future resolved to
    micros_offset, \* per request: the closure's local micros_offset
    duration,      \* per request: the closure's local duration
    sink,          \* the records handed to the logger, in order
    filter_at,     \* per request: max_level when call ran and when the
                   \* closure ran (history, read by no action)
    clock_at       \* per request: the clock when call took the logging
                   \* branch and when the closure read it for the
                   \* duration (history, read by no action)

vars == <<self, max_level, now, ticks, reconfigs, pc, hooked, start_time,
          chainCalls, chain, result, micros_offset, duration, sink,
          filter_at, clock_at>>

-----------------------------------------------------------------------------
(* Bounds of the model *)

NumRequests == 2
MaxTicks == 1
MaxReconfigs == 1

Requests == 1..NumRequests

-----------------------------------------------------------------------------
(* Option values *)

None == <<>>
Some(x) == <<x>>
Unwrap(o) == o[1]

-----------------------------------------------------------------------------
(* log::Level and log::LevelFilter: Error = 1 .. Trace = 5, Off = 0 *)

LevelOff == 0
LevelError == 1
LevelTrace == 5
Levels == LevelError..LevelTrace
LevelFilters == LevelOff..LevelTrace

\* the levels the middleware is constructed with in the model
ConfiguredLevels == {3}

\* with_level_and_duration(level, duration)
with_level_and_duration(level, dur) == [level |-> level, duration |-> dur]

\* with_level(level)
with_level(level) == with_level_and_duration(level, FALSE)

\* log_enabled!(level), also the test log! makes before it hands a record over
\* variant: the level test always passes
log_enabled_always(level) == TRUE
\* variant: the outcome of the test for the first request is kept and reused
log_enabled_cached(level) ==
    IF filter_at[1].call # None THEN level <= Unwrap(filter_at[1].call)
    ELSE level <= max_level
log_enabled(level) == level <= max_level

-----------------------------------------------------------------------------
(* Display of integers *)

DigitChars == <<"0", "1", "2", "3", "4", "5", "6", "7", "8", "9">>

RECURSIVE Dec(_)
\* "{}" of a non-negative integer
Dec(n) == IF n < 10 THEN DigitChars[n + 1]
          ELSE Dec(n \div 10) \o DigitChars[(n % 10) + 1]

\* "{}" of a signed integer
DecSigned(n) == IF n < 0 THEN "-" \o Dec(0 - n) ELSE Dec(n)

\* two digits, zero padded (%d, %H, %M, %S and the two decimals of {:.2})
Dec2(n) == DigitChars[(n \div 10) + 1] \o DigitChars[(n % 10) + 1]

-----------------------------------------------------------------------------
(* start_time.format("%d/%b/%Y:%H:%M:%S %z") for a DateTime<Utc> *)

\* the instant the wall clock shows when the model starts:
\* 2023-10-10 13:55:36 UTC, in seconds since the Unix epoch
ClockOrigin == 1696946136

MonthNames == <<"Jan", "Feb", "Mar", "Apr", "May", "Jun",
                "Jul", "Aug", "Sep", "Oct", "Nov", "Dec">>

\* the civil date [y, m, d] of a day count since 1970-01-01
CivilFromDays(days) ==
    LET z == days + 719468
        era == z \div 146097
        doe == z - era * 146097
        yoe == (doe - doe \div 1460 + doe \div 36524 - doe \div 146096) \div 365
        doy == doe - (365 * yoe + yoe \div 4 - yoe \div 100)
        mp == (5 * doy + 2) \div 153
        d == doy - (153 * mp + 2) \div 5 + 1
        m == IF mp < 10 THEN mp + 3 ELSE mp - 9
        y == yoe + era * 400 + (IF m <= 2 THEN 1 ELSE 0)
    IN  [y |-> y, m |-> m, d |-> d]

\* the CLF date of the instant t (microseconds since ClockOrigin)
FormatDateTime(t) ==
    LET secs == ClockOrigin + t \div 1000000
        date == CivilFromDays(secs \div 86400)
        sod == secs % 86400
    IN  Dec2(date.d) \o "/" \o MonthNames[date.m] \o "/" \o Dec(date.y) \o ":"
        \o Dec2(sod \div 3600) \o ":" \o Dec2((sod % 3600) \div 60) \o ":"
        \o Dec2(sod % 60) \o " +0000"

-----------------------------------------------------------------------------
(* f32 arithmetic: a positive f32 is m / 2^s with m below 2^24 *)

MantissaBits == 24

RECURSIVE Pow2(_)
Pow2(k) == IF k = 0 THEN 1 ELSE 2 * Pow2(k - 1)

\* round q + r/den to an integer, ties to even
RoundHalfEven(q, r, den) ==
    IF 2 * r > den \/ (2 * r = den /\ q % 2 = 1) THEN q + 1 ELSE q

\* (n as f32) for a non-negative integer n: the nearest f32, an integer
F32FromInt(n) ==
    IF n < Pow2(MantissaBits) THEN n
    ELSE LET k == CHOOSE j \in 1..8 :
                    /\ n \div Pow2(j) < Pow2(MantissaBits)
                    /\ n \div Pow2(j - 1) >= Pow2(MantissaBits)
             p == Pow2(k)
         IN  RoundHalfEven(n \div p, n % p, p) * p

RECURSIVE ShiftDivide(_, _, _, _)
\* <<floor((q*d + r) * 2^n / d), remainder>>, one binary digit a step
ShiftDivide(q, r, d, n) ==
    IF n = 0 THEN <<q, r>>
    ELSE IF 2 * r >= d THEN ShiftDivide(2 * q + 1, 2 * r - d, d, n - 1)
         ELSE ShiftDivide(2 * q, 2 * r, d, n - 1)

\* a / d in f32, for integers a >= d > 0 that are f32 values: [m, s]
F32Div(a, d) ==
    LET ex == CHOOSE j \in 0..(MantissaBits - 1) :
                    /\ a \div Pow2(j) >= d
                    /\ a \div Pow2(j + 1) < d
        s == (MantissaBits - 1) - ex
        qr == ShiftDivide(a \div d, a % d, d, s)
    IN  [m |-> RoundHalfEven(qr[1], qr[2], d), s |-> s]

\* "{:.2}" of the f32 x.m / 2^(x.s): the exact value rounded to hundredths
FormatFixed2(x) ==
    LET n == x.m * 100
        den == Pow2(x.s)
        h == RoundHalfEven(n \div den, n % den, den)
    IN  Dec(h \div 100) \o "." \o Dec2(h % 100)

\* the micro sign U+00B5 of the format string of line 84, in Rust's escape
\* notation: the strings of the model hold ASCII characters only
MicroSign == "\\u{b5}"

\* the tiers of the duration text
MicrosPerMilli == 1000
MicrosPerSecond == 1000000

\* the readable duration of lines 83-89, with its " - " prefix
FormatDuration(offset) ==
    IF offset < MicrosPerMilli THEN
        " - " \o DecSigned(offset) \o MicroSign \o "s"
    ELSE IF offset < MicrosPerSecond THEN
        " - " \o FormatFixed2(F32Div(F32FromInt(offset), MicrosPerMilli)) \o "ms"
    ELSE
        " - " \o FormatFixed2(F32Div(F32FromInt(offset), MicrosPerSecond)) \o "s"

-----------------------------------------------------------------------------
(* What the rest of the pipeline can produce *)

\* the parts of gotham's State the closure reads
RequestStates ==
    { [addr |-> Some("203.0.113.5"), method |-> "GET", path |-> "/health",
       version |-> "HTTP/1.1"],
      [addr |-> None, method |-> "POST", path |-> "/items",
       version |-> "HTTP/1.0"] }

\* the parts of hyper's Response the closure reads
Responses ==
    { [status |-> 200, length |-> Some(12)],
      [status |-> 404, length |-> Some(0)],
      [status |-> 500, length |-> None] }

NotCalled == [tag |-> "NotCalled"]
Pending == [tag |-> "Pending"]
Ok(state, response) == [tag |-> "Ok", state |-> state, response |-> response]
Err == [tag |-> "Err", error |-> "HandlerError"]

\* the values a HandlerFuture resolves to; a state without a client address
\* comes with the first response only (the closure stops before it reads it)
Outcomes ==
    {Ok(s, resp) : s \in {t \in RequestStates : t.addr # None},
                   resp \in Responses}
    \cup {Ok(s, resp) : s \in {t \in RequestStates : t.addr = None},
                       resp \in {x \in Responses : x.status = 200}}
    \cup {Err}

-----------------------------------------------------------------------------
(* The and_then closure of call, lines 63-120 *)

\* client_addr(&state): the peer address of the state, if any
client_addr(state) == state.addr

\* variant: a missing content length is logged as 0 (unwrap_or)
content_length_or_zero(response) ==
    IF response.length = None THEN Some(0) ELSE response.length
\* response.headers().get::<ContentLength>()
content_length(response) == response.length

\* the format string of log!, line 106, applied to its eight arguments
FormatLine(ip, datetime, method, path, version, status, length, dur) ==
    ip \o " - - [" \o datetime \o "] \"" \o method \o " " \o path \o " "
    \o version \o "\" " \o status \o " " \o length \o " " \o dur

\* variant: the offset is taken from the end to the start
ComputeDurationReversed(start, end) ==
    IF ~self.duration THEN [offset |-> None, text |-> ""]
    ELSE [offset |-> Some(start - end), text |-> FormatDuration(start - end)]
\* lines 71-91: the text of the duration and the offset it was made from
ComputeDuration(start, end) ==
    IF ~self.duration THEN [offset |-> None, text |-> ""]
    ELSE [offset |-> Some(end - start), text |-> FormatDuration(end - start)]

\* variant: the line is logged with error!, whatever the configured level
LogRecordsAtError(r, line) ==
    IF log_enabled(self.level)
    THEN <<[level |-> LevelError, line |-> line, request |-> r]>>
    ELSE <<>>
\* variant: the line and its end are handed over in two emissions
LogRecordsInParts(r, line) ==
    IF log_enabled(self.level)
    THEN <<[level |-> self.level, line |-> line, request |-> r],
           [level |-> self.level, line |-> "\n", request |-> r]>>
    ELSE <<>>
\* variant: the line is logged on receipt of the response and again on return
LogRecordsTwice(r, line) ==
    IF log_enabled(self.level)
    THEN <<[level |-> self.level, line |-> line, request |-> r],
           [level |-> self.level, line |-> line, request |-> r]>>
    ELSE <<>>
\* log!(self.level, ..): the records handed to the logger
LogRecords(r, line) ==
    IF log_enabled(self.level)
    THEN <<[level |-> self.level, line |-> line, request |-> r]>>
    ELSE <<>>

\* variant: the closure returns the response without its content length
ClosureResultNoLength(state, response) ==
    Ok(state, [response EXCEPT !.length = None])
\* the value the closure returns, line 119
ClosureResult(state, response) == Ok(state, response)

\* variant: the status is logged by its class (404 as 400)
status_class(response) == (response.status \div 100) * 100
\* response.status().as_u16(), line 100
status_of(response) == response.status

\* the closure run for request r on the pair the chain produced, at the
\* instant end: whether it panicked, the locals it computed, the records it
\* logged and the value it returned
Closure(r, state, response, start, end) ==
    LET dur == ComputeDuration(start, end)
    IN  IF client_addr(state) = None THEN
            [panicked |-> TRUE, offset |-> None, text |-> "",
             logged |-> <<>>, value |-> None]
        ELSE IF content_length(response) = None THEN
            [panicked |-> TRUE, offset |-> dur.offset, text |-> dur.text,
             logged |-> <<>>, value |-> None]
        ELSE
            [panicked |-> FALSE, offset |-> dur.offset, text |-> dur.text,
             logged |-> LogRecords(r,
                 FormatLine(Unwrap(client_addr(state)), FormatDateTime(start),
                            state.method, state.path, state.version,
                            Dec(status_of(response)),
                            Dec(Unwrap(content_length(response))), dur.text)),
             value |-> Some(ClosureResult(state, response))]

\* variant: start_time is a field shared by the requests, which every call
\* overwrites
captured_start_shared(r) ==
    LET last == CHOOSE q \in Requests :
                    /\ start_time[q] # None
                    /\ \A p \in Requests : start_time[p] # None => p <= q
    IN  Unwrap(start_time[last])
\* variant: the clock is read for start_time inside the closure
captured_start_late(r) == now
\* the start_time the closure of request r has captured (move, line 63)
captured_start(r) == Unwrap(start_time[r])

\* and_then: the closure runs on Ok only, an error passes through
AndThenRuns(out) == out.tag = "Ok"

\* variant: the error is replaced on its way through (map_err)
PassErrorMapped(out) == [out EXCEPT !.error = "Other"]
\* and_then: what the future resolves to when the closure does not run
PassError(out) == out

-----------------------------------------------------------------------------
(* The state machine *)

\* the maximum levels the process is configured with in the model: one that
\* disables the configured level and one that enables it
FilterChoices == {2, 3}

\* the clock advances by one second and 42 microseconds at a time
TickDeltas == {1000042}

Init ==
    /\ self \in {with_level(l) : l \in ConfiguredLevels}
                \cup {with_level_and_duration(l, d) :
                        l \in ConfiguredLevels, d \in BOOLEAN}
    /\ max_level \in FilterChoices
    /\ now = 0
    /\ ticks = 0
    /\ reconfigs = 0
    /\ pc = [r \in Requests |-> "new"]
    /\ hooked = [r \in Requests |-> FALSE]
    /\ start_time = [r \in Requests |-> None]
    /\ chainCalls = [r \in Requests |-> 0]
    /\ chain = [r \in Requests |-> NotCalled]
    /\ result = [r \in Requests |-> None]
    /\ micros_offset = [r \in Requests |-> None]
    /\ duration = [r \in Requests |-> None]
    /\ sink = <<>>
    /\ filter_at = [r \in Requests |-> [call |-> None, poll |-> None]]
    /\ clock_at = [r \in Requests |-> [call |-> None, poll |-> None]]

\* requests are numbered in the order in which call is invoked for them
NextToCall(r) == \A q \in Requests : q < r => pc[q] # "new"

\* variant: call returns a future without invoking the chain
CallChainSkipped(r) ==
    /\ chainCalls' = chainCalls
    /\ chain' = [chain EXCEPT ![r] = Pending]
\* the chain is invoked for request r: chain(state)
CallChain(r) ==
    /\ chainCalls' = [chainCalls EXCEPT ![r] = @ + 1]
    /\ chain' = [chain EXCEPT ![r] = Pending]

\* call, lines 55-57: logging is disabled, the chain's future is returned
CallDisabled(r) ==
    /\ pc[r] = "new"
    /\ NextToCall(r)
    /\ ~log_enabled(self.level)
    /\ CallChain(r)
    /\ pc' = [pc EXCEPT ![r] = "pending"]
    /\ filter_at' = [filter_at EXCEPT ![r].call = Some(max_level)]
    /\ UNCHANGED <<self, max_level, now, ticks, reconfigs, hooked, start_time,
                   result, micros_offset, duration, sink, clock_at>>

\* call, lines 59-123: start_time is taken, the chain is called and the
\* closure is hooked onto its future
CallEnabled(r) ==
    /\ pc[r] = "new"
    /\ NextToCall(r)
    /\ log_enabled(self.level)
    /\ start_time' = [start_time EXCEPT ![r] = Some(now)]
    /\ CallChain(r)
    /\ hooked' = [hooked EXCEPT ![r] = TRUE]
    /\ pc' = [pc EXCEPT ![r] = "pending"]
    /\ filter_at' = [filter_at EXCEPT ![r].call = Some(max_level)]
    /\ clock_at' = [clock_at EXCEPT ![r].call = Some(now)]
    /\ UNCHANGED <<self, max_level, now, ticks, reconfigs, result,
                   micros_offset, duration, sink>>

\* the caller polls the future of a request that call did not hook, which
\* is the chain's own future, and the chain is ready with out
PollPlain(r, out) ==
    /\ pc[r] = "pending"
    /\ ~hooked[r]
    /\ chain' = [chain EXCEPT ![r] = out]
    /\ result' = [result EXCEPT ![r] = Some(out)]
    /\ pc' = [pc EXCEPT ![r] = IF out.tag = "Ok" THEN "ok" ELSE "err"]
    /\ UNCHANGED <<self, max_level, now, ticks, reconfigs, hooked, start_time,
                   chainCalls, micros_offset, duration, sink, filter_at,
                   clock_at>>

\* the caller polls the and_then future and the chain is ready with an
\* outcome the closure does not run on
PollError(r, out) ==
    /\ pc[r] = "pending"
    /\ hooked[r]
    /\ ~AndThenRuns(out)
    /\ chain' = [chain EXCEPT ![r] = out]
    /\ result' = [result EXCEPT ![r] = Some(PassError(out))]
    /\ pc' = [pc EXCEPT ![r] = "err"]
    /\ UNCHANGED <<self, max_level, now, ticks, reconfigs, hooked, start_time,
                   chainCalls, micros_offset, duration, sink, filter_at,
                   clock_at>>

\* the caller polls the and_then future and the chain is ready with an
\* outcome the closure runs on, in the same poll
PollClosure(r, out) ==
    /\ pc[r] = "pending"
    /\ hooked[r]
    /\ AndThenRuns(out)
    /\ chain' = [chain EXCEPT ![r] = out]
    /\ \E c \in {Closure(r, out.state, out.response, captured_start(r), now)} :
           /\ micros_offset' = [micros_offset EXCEPT ![r] = c.offset]
           /\ duration' = [duration EXCEPT ![r] = Some(c.text)]
           /\ sink' = sink \o c.logged
           /\ result' = [result EXCEPT ![r] = c.value]
           /\ pc' = [pc EXCEPT ![r] = IF c.panicked THEN "panicked" ELSE "ok"]
    /\ filter_at' = [filter_at EXCEPT ![r].poll = Some(max_level)]
    /\ clock_at' = [clock_at EXCEPT ![r].poll =
                        IF self.duration /\ out.state.addr # None
                        THEN Some(now) ELSE None]
    /\ UNCHANGED <<self, max_level, now, ticks, reconfigs, hooked, start_time,
                   chainCalls>>

\* the caller drops the future before the chain is ready: the request is
\* cancelled
Drop(r) ==
    /\ pc[r] = "pending"
    /\ pc' = [pc EXCEPT ![r] = "dropped"]
    /\ UNCHANGED <<self, max_level, now, ticks, reconfigs, hooked, start_time,
                   chainCalls, chain, result, micros_offset, duration, sink,
                   filter_at, clock_at>>

\* time passes
Tick(d) ==
    /\ ticks < MaxTicks
    /\ now' = now + d
    /\ ticks' = ticks + 1
    /\ UNCHANGED <<self, max_level, reconfigs, pc, hooked, start_time,
                   chainCalls, chain, result, micros_offset, duration, sink,
                   filter_at, clock_at>>

\* log::set_max_level: logging is reconfigured process-wide
SetMaxLevel(l) ==
    /\ reconfigs < MaxReconfigs
    /\ l # max_level
    /\ max_level' = l
    /\ reconfigs' = reconfigs + 1
    /\ UNCHANGED <<self, now, ticks, pc, hooked, start_time, chainCalls,
                   chain, result, micros_offset, duration, sink, filter_at,
                   clock_at>>

Next ==
    \/ \E r \in Requests : CallDisabled(r)
    \/ \E r \in Requests : CallEnabled(r)
    \/ \E r \in Requests, out \in Outcomes : PollPlain(r, out)
    \/ \E r \in Requests, out \in Outcomes : PollError(r, out)
    \/ \E r \in Requests, out \in Outcomes : PollClosure(r, out)
    \/ \E r \in Requests : Drop(r)
    \/ \E d \in TickDeltas : Tick(d)
    \/ \E l \in FilterChoices : SetMaxLevel(l)

Spec == Init /\ [][Next]_vars

-----------------------------------------------------------------------------
(* The duration formatting on its own: request 1 has been called with      *)
(* logging enabled and the duration switched on at instant 0, the clock    *)
(* now shows one of ElapsedInputs, and the future is polled.               *)

ElapsedInputs ==
    (0..20) \cup (990..1010) \cup {1065, 1125} \cup (999990..1000010)
    \cup (16794990..16795000)

FmtInit ==
    /\ self \in {with_level_and_duration(l, TRUE) : l \in ConfiguredLevels}
    /\ max_level = self.level
    /\ now \in ElapsedInputs
    /\ ticks = 1
    /\ reconfigs = 0
    /\ pc = [r \in Requests |-> IF r = 1 THEN "pending" ELSE "new"]
    /\ hooked = [r \in Requests |-> r = 1]
    /\ start_time = [r \in Requests |-> IF r = 1 THEN Some(0) ELSE None]
    /\ chainCalls = [r \in Requests |-> IF r = 1 THEN 1 ELSE 0]
    /\ chain = [r \in Requests |-> IF r = 1 THEN Pending ELSE NotCalled]
    /\ result = [r \in Requests |-> None]
    /\ micros_offset = [r \in Requests |-> None]
    /\ duration = [r \in Requests |-> None]
    /\ sink = <<>>
    /\ filter_at = [r \in Requests |->
                      [call |-> IF r = 1 THEN Some(max_level) ELSE None,
                       poll |-> None]]
    /\ clock_at = [r \in Requests |->
                     [call |-> IF r = 1 THEN Some(0) ELSE None,
                      poll |-> None]]

FmtNext == \E out \in Outcomes : PollClosure(1, out)

SpecFmt == FmtInit /\ [][FmtNext]_vars

-----------------------------------------------------------------------------
(* Vocabulary of the properties *)

\* the records of request r in the sink
RecordsOf(r) == {i \in DOMAIN sink : sink[i].request = r}

\* call has been invoked for r
Called(r) == pc[r] # "new"

\* logging at the configured level was enabled when call ran for r
EnabledAtCall(r) ==
    /\ filter_at[r].call # None
    /\ self.level <= Unwrap(filter_at[r].call)

\* logging at the configured level was disabled when call ran for r
DisabledAtCall(r) ==
    /\ filter_at[r].call # None
    /\ self.level > Unwrap(filter_at[r].call)

\* the future of r has been polled to its end
Finished(r) == pc[r] \in {"ok", "err", "panicked"}

\* the chain produced a response for r
Responded(r) == chain[r].tag = "Ok"

\* the chain produced a response for r and the client address or the
\* content length is missing
FieldMissing(r) ==
    /\ Responded(r)
    /\ (chain[r].state.addr = None \/ chain[r].response.length = None)

\* the line the format of section 4.3 gives for r, without a duration:
\* <client-ip> - - [<timestamp>] "<method> <path> <version>" <status> <length>
BaseLine(r) ==
    Unwrap(chain[r].state.addr) \o " - - ["
    \o FormatDateTime(Unwrap(start_time[r])) \o "] \""
    \o chain[r].state.method \o " " \o chain[r].state.path \o " "
    \o chain[r].state.version \o "\" " \o Dec(chain[r].response.status)
    \o " " \o Dec(Unwrap(chain[r].response.length))

\* the hundredths nearest to e / d (both neighbours when e / d is half way)
NearestHundredths(e, d) ==
    LET q == e \div d
        rem == e % d
    IN  IF 2 * rem < d THEN {q}
        ELSE IF 2 * rem > d THEN {q + 1}
        ELSE {q, q + 1}

\* h hundredths with two decimals
TwoDecimals(h) == Dec(h \div 100) \o "." \o Dec2(h % 100)

\* the duration texts of the table of section 4.2 for e microseconds
DurationTexts(e) ==
    IF e < 1000 THEN {Dec(e) \o MicroSign \o "s"}
    ELSE IF e < 1000000 THEN
        {TwoDecimals(h) \o "ms" : h \in NearestHundredths(e, 10)}
    ELSE {TwoDecimals(h) \o "s" : h \in NearestHundredths(e, 10000)}

-----------------------------------------------------------------------------
(* C1: a request whose call ran while logging at the configured level was  *)
(* disabled gets the chain's own future: no record is ever logged for it,  *)
(* and what its future resolves to is what the chain produced.             *)
C1_DisabledPassThrough ==
    \A r \in Requests :
        DisabledAtCall(r) =>
            /\ RecordsOf(r) = {}
            /\ ~hooked[r]
            /\ start_time[r] = None
            /\ pc[r] # "panicked"
            /\ Finished(r) => result[r] = Some(chain[r])

\* a request called with logging disabled has resolved to a response while
\* logging is enabled again
C1_Witness ==
    \E r \in Requests :
        /\ DisabledAtCall(r)
        /\ pc[r] = "ok"
        /\ self.level <= max_level

(* C2, as stated: every request whose call ran while logging was enabled   *)
(* and whose future has been polled to its end has exactly one record.     *)
C2_ExactlyOneLine ==
    \A r \in Requests :
        EnabledAtCall(r) /\ Finished(r) => Cardinality(RecordsOf(r)) = 1

(* C2, amended: a request whose call ran while logging was enabled has at  *)
(* most one record, and none before the chain has produced its response;   *)
(* it has exactly one once its future has resolved to the response with    *)
(* logging still enabled when the closure ran, and none when the chain     *)
(* failed, the future was dropped, the closure panicked or logging had     *)
(* been disabled by the time the closure ran.                              *)
C2_AtMostOneLineAfterResponse ==
    \A r \in Requests :
        EnabledAtCall(r) =>
            /\ Cardinality(RecordsOf(r)) <= 1
            /\ RecordsOf(r) # {} => Responded(r) /\ pc[r] = "ok"
            /\ pc[r] = "ok" /\ self.level <= Unwrap(filter_at[r].poll)
                   => Cardinality(RecordsOf(r)) = 1
            /\ pc[r] = "ok" /\ self.level > Unwrap(filter_at[r].poll)
                   => RecordsOf(r) = {}
            /\ pc[r] \in {"pending", "err", "panicked", "dropped"}
                   => RecordsOf(r) = {}

\* two requests called with logging enabled: one resolved and has its
\* record, the other's chain failed and it has none
C2_Witness ==
    \E r, q \in Requests :
        /\ EnabledAtCall(r) /\ pc[r] = "ok" /\ Cardinality(RecordsOf(r)) = 1
        /\ EnabledAtCall(q) /\ pc[q] = "err" /\ RecordsOf(q) = {}

(* C3: once call has been invoked for a request the chain has been called  *)
(* exactly once for it, whichever branch call took, and it is never called *)
(* again; before, it has not been called.                                  *)
C3_ChainCalledOnce ==
    \A r \in Requests :
        chainCalls[r] = IF Called(r) THEN 1 ELSE 0

\* one request went through the logging branch, another through the
\* disabled branch, and both futures have been polled to their end
C3_Witness ==
    \E r, q \in Requests :
        /\ hooked[r] /\ Finished(r)
        /\ ~hooked[q] /\ Finished(q)

(* C4: when logging was enabled and the hooked future has resolved, it     *)
(* resolved to the (state, response) pair the chain produced, unchanged.   *)
C4_ResponseUnchanged ==
    \A r \in Requests :
        hooked[r] /\ pc[r] = "ok" =>
            /\ Responded(r)
            /\ result[r] = Some(chain[r])

\* a hooked request has resolved and its record has been logged
C4_Witness ==
    \E r \in Requests :
        hooked[r] /\ pc[r] = "ok" /\ RecordsOf(r) # {}

(* C5: when the client address or the content length is missing, the      *)
(* future of a request called with logging enabled, once polled with the   *)
(* chain's response, still resolves to that response.                      *)
C5_ResponseReturnedOnMissingField ==
    \A r \in Requests :
        EnabledAtCall(r) /\ FieldMissing(r) /\ Finished(r) =>
            result[r] = Some(chain[r])

(* C6: when the chain's response has no content length, or the state has   *)
(* no client address, no record is logged for the request.                 *)
C6_NoLineOnMissingField ==
    \A r \in Requests :
        FieldMissing(r) => RecordsOf(r) = {}

\* with logging enabled throughout, one request's closure stopped on a
\* response without a content length and another's on a state without a
\* client address
C6_Witness ==
    \E r, q \in Requests :
        /\ pc[r] = "panicked" /\ chain[r].response.length = None
        /\ chain[r].state.addr # None
        /\ pc[q] = "panicked" /\ chain[q].state.addr = None
        /\ self.level <= Unwrap(filter_at[r].poll)
        /\ self.level <= Unwrap(filter_at[q].poll)

(* C7: when logging was enabled and the chain's future fails or has not    *)
(* completed (or the future was dropped before it did), no record is       *)
(* logged for the request, and a failure is what the hooked future         *)
(* resolves to, as the chain produced it.                                  *)
C7_NoLineOnFailure ==
    \A r \in Requests :
        hooked[r] /\ ~Responded(r) =>
            /\ RecordsOf(r) = {}
            /\ micros_offset[r] = None /\ duration[r] = None
            /\ chain[r].tag = "Err" <=> pc[r] = "err"
            /\ pc[r] = "err" => result[r] = Some(chain[r])

\* with logging enabled, one hooked future has resolved to the chain's
\* error and another was dropped before the chain completed
C7_Witness ==
    \E r, q \in Requests :
        /\ hooked[r] /\ pc[r] = "err" /\ self.level <= max_level
        /\ hooked[q] /\ pc[q] = "dropped"

(* C8: for every elapsed value e >= 0 the closure's duration is " - "      *)
(* followed by the text of the table: e and "µs" below 1000, e/1000 with   *)
(* two decimals and "ms" below 1000000, e/1000000 with two decimals and    *)
(* "s" from there on (999 gives "999µs", 1000 "1.00ms", 999999             *)
(* "1000.00ms", 1000000 "1.00s").                                          *)
C8_DurationText ==
    \A r \in Requests :
        micros_offset[r] # None /\ Unwrap(micros_offset[r]) >= 0 =>
            /\ \E t \in DurationTexts(Unwrap(micros_offset[r])) :
                    duration[r] = Some(" - " \o t)
            /\ Unwrap(micros_offset[r]) = 999 => duration[r] = Some(" - 999" \o MicroSign \o "s")
            /\ Unwrap(micros_offset[r]) = 1000 => duration[r] = Some(" - 1.00ms")
            /\ Unwrap(micros_offset[r]) = 999999
                   => duration[r] = Some(" - 1000.00ms")
            /\ Unwrap(micros_offset[r]) = 1000000
                   => duration[r] = Some(" - 1.00s")

(* C9: with the duration switched off every logged line is exactly         *)
(* <client-ip> - - [<timestamp>] "<method> <path> <version>" <status>      *)
(* <length>, ending with the content length.                               *)
C9_LineWithoutDuration ==
    \A i \in DOMAIN sink :
        ~self.duration => sink[i].line = BaseLine(sink[i].request)

(* C10: with the duration switched on every logged line is the line of C9  *)
(* followed by exactly " - " and the duration text: one space, a hyphen    *)
(* and one space stand between the content length and the duration.        *)
C10_LineWithDuration ==
    \A i \in DOMAIN sink :
        self.duration =>
            sink[i].line = BaseLine(sink[i].request)
                           \o Unwrap(duration[sink[i].request])

-----------------------------------------------------------------------------
(* Vocabulary of the properties on lines *)

\* the line the format string gives for the pair the chain produced for r,
\* with the timestamp ts and the duration argument dur
LineWith(r, ts, dur) ==
    FormatLine(Unwrap(chain[r].state.addr), ts, chain[r].state.method,
               chain[r].state.path, chain[r].state.version,
               Dec(chain[r].response.status),
               Dec(Unwrap(chain[r].response.length)), dur)

\* the instant at which call took the logging branch for r
CallInstant(r) == Unwrap(clock_at[r].call)

\* the instant at which the closure of r read the clock for the duration
EndInstant(r) == Unwrap(clock_at[r].poll)

\* the position of the record of r in the sink
PositionOf(r) == CHOOSE i \in DOMAIN sink : sink[i].request = r

(* C11: under any interleaving, the start_time of a request is the instant *)
(* of its own call and stays so while other requests are called and        *)
(* logged; the timestamp and the elapsed time of its line are computed     *)
(* from that instant.                                                      *)
C11_OwnStartTime ==
    \A r \in Requests :
        hooked[r] =>
            /\ start_time[r] = clock_at[r].call
            /\ start_time[r] # None
            /\ micros_offset[r] # None =>
                   micros_offset[r] = Some(EndInstant(r) - CallInstant(r))
            /\ \A i \in RecordsOf(r) :
                   /\ duration[r] =
                          IF self.duration
                          THEN Some(FormatDuration(EndInstant(r) - CallInstant(r)))
                          ELSE Some("")
                   /\ sink[i].line =
                          LineWith(r, FormatDateTime(CallInstant(r)),
                                   Unwrap(duration[r]))

\* two requests called at different instants are both logged, the one
\* called later first
C11_Witness ==
    \E r, q \in Requests :
        /\ r < q
        /\ hooked[r] /\ hooked[q]
        /\ CallInstant(r) # CallInstant(q)
        /\ RecordsOf(r) # {} /\ RecordsOf(q) # {}
        /\ PositionOf(q) < PositionOf(r)

(* C12: every record the sink receives is the complete line of one        *)
(* request, all eight arguments of the format string taken from that       *)
(* request, and a request's line comes in one record: under any            *)
(* interleaving the sink holds one whole line per logged request.          *)
C12_WholeLines ==
    /\ \A i \in DOMAIN sink :
           /\ Responded(sink[i].request)
           /\ sink[i].line =
                  LineWith(sink[i].request,
                           FormatDateTime(Unwrap(start_time[sink[i].request])),
                           Unwrap(duration[sink[i].request]))
    /\ \A i, j \in DOMAIN sink : sink[i].request = sink[j].request => i = j
    /\ Len(sink) = Cardinality({r \in Requests : RecordsOf(r) # {}})

\* two requests were in flight together, with the duration switched on, and
\* the sink holds their two lines, the later request's first
C12_Witness ==
    /\ self.duration
    /\ Len(sink) = 2
    /\ sink[1].request > sink[2].request
    /\ sink[1].line # sink[2].line

(* C13: the gate is evaluated for every request: a request is logged or   *)
(* skipped by the enablement in force when call ran for it, whatever was   *)
(* decided for the requests before it.                                     *)
C13_GatePerRequest ==
    \A r \in Requests :
        Called(r) =>
            /\ hooked[r] <=> self.level <= Unwrap(filter_at[r].call)
            /\ start_time[r] # None <=> self.level <= Unwrap(filter_at[r].call)

\* logging was reconfigured between two requests: the first was logged, the
\* second, called after logging was disabled, was passed through
C13_Witness ==
    \E r, q \in Requests :
        /\ r < q
        /\ hooked[r] /\ pc[r] = "ok" /\ RecordsOf(r) # {}
        /\ ~hooked[q] /\ pc[q] = "ok" /\ RecordsOf(q) = {}

\* the configurations the constructors give
Constructed ==
    {with_level(l) : l \in Levels}
    \cup {with_level_and_duration(l, d) : l \in Levels, d \in BOOLEAN}

(* C14: every record is written at the level given at construction, which *)
(* is the level the gate tested for that request and found enabled, and no *)
(* step of request processing changes the level or the duration flag.      *)
C14_ConfiguredSeverity ==
    /\ [](/\ self \in Constructed
          /\ \A i \in DOMAIN sink :
                 /\ sink[i].level = self.level
                 /\ hooked[sink[i].request]
                 /\ sink[i].level <= Unwrap(filter_at[sink[i].request].call))
    /\ [][self' = self]_vars

\* a record has been written and logging at the configured level has been
\* disabled since
C14_Witness ==
    /\ Len(sink) > 0
    /\ sink[1].level = self.level
    /\ max_level < self.level

(* C15: the timestamp of a request's line is the instant captured when    *)
(* call ran, before the chain was invoked, not the instant at which the    *)
(* response was there; start_time is taken once, for hooked requests       *)
(* only, and is there while the chain runs.                                *)
C15_TimestampIsStart ==
    \A r \in Requests :
        /\ ~hooked[r] => start_time[r] = None
        /\ hooked[r] =>
               /\ start_time[r] = clock_at[r].call
               /\ CallInstant(r) <= now
               /\ chainCalls[r] = 1
        /\ \A i \in RecordsOf(r) :
               /\ sink[i].line =
                      LineWith(r, FormatDateTime(CallInstant(r)),
                               Unwrap(duration[r]))
               /\ (/\ clock_at[r].poll # None
                   /\ FormatDateTime(EndInstant(r)) # FormatDateTime(CallInstant(r)))
                  => sink[i].line #
                         LineWith(r, FormatDateTime(EndInstant(r)),
                                  Unwrap(duration[r]))

\* a line has been logged for a request whose response came a second after
\* its call
C15_Witness ==
    \E r \in Requests :
        /\ RecordsOf(r) # {}
        /\ clock_at[r].poll # None
        /\ FormatDateTime(EndInstant(r)) # FormatDateTime(CallInstant(r))

(* C16: with the duration switched on, the end instant is read once the   *)
(* chain's response is there and before the line is logged, and the        *)
(* elapsed time is that instant minus the start_time of the same request:  *)
(* the clock of the model never goes backwards, so it is never negative,   *)
(* and it spans the time from call to response.                            *)
C16_ElapsedFromStart ==
    \A r \in Requests :
        /\ micros_offset[r] # None =>
               /\ self.duration /\ hooked[r] /\ Responded(r)
               /\ clock_at[r].poll # None
               /\ CallInstant(r) <= EndInstant(r) /\ EndInstant(r) <= now
               /\ Unwrap(micros_offset[r]) = EndInstant(r) - CallInstant(r)
               /\ Unwrap(micros_offset[r]) >= 0
               /\ duration[r] = Some(FormatDuration(Unwrap(micros_offset[r])))
        /\ RecordsOf(r) # {} /\ self.duration => micros_offset[r] # None
        /\ ~self.duration => micros_offset[r] = None

\* a line has been logged whose elapsed time spans the second that passed
\* between call and response
C16_Witness ==
    \E r \in Requests :
        /\ RecordsOf(r) # {}
        /\ micros_offset[r] # None
        /\ Unwrap(micros_offset[r]) > 0
        /\ duration[r] = Some(" - 1.00s")

(* C17, as stated: for every response the chain produces while the gate   *)
(* is enabled, whatever its status, one line is logged and its status      *)
(* field is the response's status code.                                    *)
C17_EveryStatusLogged ==
    \A r \in Requests :
        EnabledAtCall(r) /\ Responded(r) /\ Finished(r) =>
            /\ Cardinality(RecordsOf(r)) = 1
            /\ \A i \in RecordsOf(r) :
                   sink[i].line =
                       LineWith(r, FormatDateTime(Unwrap(start_time[r])),
                                Unwrap(duration[r]))

(* C17, amended: the status code never decides whether a line is logged.   *)
(* A response produced while the gate was enabled is logged, with its own  *)
(* status code in the status field, exactly when it carries a content      *)
(* length, the client address is known and logging at the configured       *)
(* level is still enabled when the closure runs; an error status (4xx,     *)
(* 5xx) is logged like any other.                                          *)
C17_StatusLoggedAsIs ==
    \A r \in Requests :
        EnabledAtCall(r) /\ Responded(r) /\ Finished(r) =>
            /\ Cardinality(RecordsOf(r)) =
                   IF /\ ~FieldMissing(r)
                      /\ self.level <= Unwrap(filter_at[r].poll)
                   THEN 1 ELSE 0
            /\ \A i \in RecordsOf(r) :
                   sink[i].line =
                       FormatLine(Unwrap(chain[r].state.addr),
                                  FormatDateTime(Unwrap(start_time[r])),
                                  chain[r].state.method, chain[r].state.path,
                                  chain[r].state.version,
                                  Dec(chain[r].response.status),
                                  Dec(Unwrap(chain[r].response.length)),
                                  Unwrap(duration[r]))

\* a response with an error status has been logged
C17_Witness ==
    \E r \in Requests :
        /\ EnabledAtCall(r) /\ pc[r] = "ok"
        /\ chain[r].response.status >= 400
        /\ Cardinality(RecordsOf(r)) = 1

(* C18: the decision to log is taken once, when call runs: a request      *)
(* whose call ran while logging was disabled never gets a line, also when  *)
(* logging at the configured level is enabled before its response is       *)
(* produced, so every record belongs to a request whose gate was enabled   *)
(* at its call.                                                            *)
C18_DecidedAtCall ==
    /\ \A i \in DOMAIN sink : EnabledAtCall(sink[i].request)
    /\ \A r \in Requests :
           DisabledAtCall(r) =>
               /\ RecordsOf(r) = {}
               /\ filter_at[r].poll = None
               /\ micros_offset[r] = None /\ duration[r] = None

\* a request was called while logging was disabled; logging was enabled, a
\* later request was called and logged, and then the first request's
\* response came: it has no line
C18_Witness ==
    \E r, q \in Requests :
        /\ r < q
        /\ DisabledAtCall(r) /\ pc[r] = "ok" /\ RecordsOf(r) = {}
        /\ EnabledAtCall(q) /\ RecordsOf(q) # {}
        /\ self.level <= max_level

====
